---- MODULE Spec2Model ----
(***************************************************************************)
(* The record / stop / upload workflow of Frontend/screens/HomeScreen.js   *)
(* as a state machine.                                                     *)
(*                                                                         *)
(* The component state (recording, isRecording, prediction, confidence)    *)
(* is React state.  Each press of the record button runs                   *)
(* handleRecordButtonPress, an async function: it runs synchronously up to *)
(* its first await and is resumed once per awaited promise.  Every await   *)
(* is an interleaving point, so one step of the model is the code between  *)
(* two awaits.  An invocation keeps the `recording' value of the render it *)
(* was created in (a closure), which is the field `rec' of its task.       *)
(*                                                                         *)
(* expo-av and axios are outside the repository.  They are modelled by the *)
(* outcomes their calls can have: an await either resolves or rejects.     *)
(*   - Recording.createAsync rejects without microphone permission;        *)
(*   - stopAndUnloadAsync on a Recording that is already unloaded rejects  *)
(*     at the call ("Cannot unload a Recording that has already been       *)
(*     unloaded.");                                                        *)
(*   - any other call may resolve or reject (an OS failure).               *)
(***************************************************************************)
EXTENDS Integers, Sequences, FiniteSets, TLC

\* ---------------------------------------------------------------- bounds
\* How many invocations of handleRecordButtonPress may be suspended at once.
MaxTasks == 3
\* How many Recording objects the OS creates in one run.
MaxHandles == 2

Slots == 1..MaxTasks
Handles == 1..MaxHandles

\* `recording' before the first setRecording: useState(null).
NoRecording == 0

\* The labels the server may answer with; "" stands for a body without a
\* (truthy) prediction field.
Labels == {"hypernasal", "normal"}
NoLabel == ""

\* response.data.confidence in ten-thousandths (8700 is 0.87); NoConf is a
\* body without the field.
NoConf == -1
ConfValues == {0, 5, 8700, 10000}

VARIABLES
    perm,        \* result of Audio.requestPermissionsAsync: pending/granted/denied
    recording,   \* useState(null): the stored Recording handle, or NoRecording
    isRecording, \* useState(false)
    prediction,  \* useState("No prediction yet"): the status string
    confidence,  \* useState(""): the confidence string
    alert,       \* title of the last Alert.alert shown, "none" if none
    hstate,      \* per Recording object: "none", "active" (prepared), "unloaded"
    tasks,       \* per slot, one suspended invocation of the press handler
    ev,          \* what the last step did (history)
    osFault,     \* an OS call of a correct use has failed (history)
    posts,       \* per Recording object, how many POSTs of its file were issued (history)
    cycleDone    \* a record-stop-upload cycle has ended (history)

vars == <<perm, recording, isRecording, prediction, confidence, alert,
          hstate, tasks, ev, osFault, posts, cycleDone>>

display == <<recording, isRecording, prediction, confidence>>

\* A slot: pc is the await the invocation is suspended at, rec the handle of
\* its closure, uri the handle whose file it posts, hang whether the server
\* never answers its request.
FreeTask == [pc |-> "free", rec |-> NoRecording, uri |-> NoRecording, hang |-> FALSE]

\* The history record of a step: the operation, the failure category it
\* ended in ("none" if it did not fail), and the response body of a 2xx.
Ev(op, fail) == [op |-> op, fail |-> fail, label |-> NoLabel, conf |-> NoConf]

FreeSlots == {t \in Slots : tasks[t].pc = "free"}
InFlight(pcs) == {t \in Slots : tasks[t].pc \in pcs}
ActiveHandles == {h \in Handles : hstate[h] = "active"}
UnusedHandles == {h \in Handles : hstate[h] = "none"}

StartPcs == {"s_stop", "s_stopmode", "s_mode", "s_create"}
StopPcs == {"h_stop", "h_mode", "s_stop", "s_stopmode"}

Init ==
    /\ perm = "pending"
    /\ recording = NoRecording
    /\ isRecording = FALSE
    /\ prediction = "No prediction yet"
    /\ confidence = ""
    /\ alert = "none"
    /\ hstate = [h \in Handles |-> "none"]
    /\ tasks = [t \in Slots |-> FreeTask]
    /\ ev = Ev("init", "none")
    /\ osFault = FALSE
    /\ posts = [h \in Handles |-> 0]
    /\ cycleDone = FALSE

\* useEffect: the permission request resolves once; a denial raises an Alert.
PermissionResult ==
    /\ perm = "pending"
    /\ \E granted \in BOOLEAN :
          /\ perm' = IF granted THEN "granted" ELSE "denied"
          /\ alert' = IF granted THEN alert ELSE "Permission required"
    /\ ev' = Ev("permission", "none")
    /\ UNCHANGED <<display, hstate, tasks, osFault, cycleDone>>
    /\ UNCHANGED posts

\* ------------------------------------------------------------ the OS model
\* recording.stopAndUnloadAsync() at the call: a Recording that is already
\* unloaded rejects at once; otherwise the native call is in flight.
StopRejectsAtCall(h) == hstate[h] = "unloaded"

\* The native stop of h settles.  The Recording is unloaded afterwards
\* whether the stop succeeded or not.  A failure of the stop of an active
\* Recording is an OS failure; the second of two overlapping stops of one
\* Recording may end either way.
StopSettled(h, ok) ==
    /\ hstate' = [hstate EXCEPT ![h] = "unloaded"]
    /\ osFault' = (osFault \/ (~ok /\ hstate[h] = "active"))

\* ---------------------------------------------------- startRecording (26-69)
\* StartCatch with the flag set the wrong way round.
StartCatch_M(t) ==
    /\ isRecording' = TRUE
    /\ prediction' = "Error"
    /\ alert' = "Recording Error"
    /\ tasks' = [tasks EXCEPT ![t] = FreeTask]
    /\ UNCHANGED <<recording, confidence, perm>>

\* catch (err): the Alert, setIsRecording(false), setPrediction("Error").
\* The confidence string and the stored handle are left as they are.
StartCatch(t) ==
    /\ isRecording' = FALSE
    /\ prediction' = "Error"
    /\ alert' = "Recording Error"
    /\ tasks' = [tasks EXCEPT ![t] = FreeTask]
    /\ UNCHANGED <<recording, confidence, perm>>

\* handleRecordButtonPress with isRecording false: startRecording() up to its
\* first await.  With a stored handle it first awaits stopRecording(); a
\* rejection at the call lands in the catch in the same turn.
PressStart(t) ==
    /\ ~isRecording
    /\ Cardinality(UnusedHandles) > Cardinality(InFlight(StartPcs))
    /\ IF recording # NoRecording
         THEN IF StopRejectsAtCall(recording)
                THEN /\ StartCatch(t)
                     /\ ev' = Ev("press_start", "local")
                ELSE /\ tasks' = [tasks EXCEPT ![t] =
                            [pc |-> "s_stop", rec |-> recording, uri |-> NoRecording,
                             hang |-> FALSE]]
                     /\ isRecording' = FALSE
                     /\ ev' = Ev("press_start", "none")
                     /\ UNCHANGED <<recording, prediction, confidence, alert, perm>>
         ELSE /\ tasks' = [tasks EXCEPT ![t] =
                     [pc |-> "s_mode", rec |-> NoRecording, uri |-> NoRecording,
                      hang |-> FALSE]]
              /\ ev' = Ev("press_start", "none")
              /\ UNCHANGED <<display, alert, perm>>
    /\ UNCHANGED <<hstate, osFault, cycleDone>>
    /\ UNCHANGED posts

\* startRecording, line 29: the stop awaited inside stopRecording settles.
StartStopSettles(t) ==
    /\ tasks[t].pc = "s_stop"
    /\ \E ok \in BOOLEAN :
          /\ StopSettled(tasks[t].rec, ok)
          /\ IF ok
               THEN /\ tasks' = [tasks EXCEPT ![t].pc = "s_stopmode"]
                    /\ ev' = Ev("s_stop_done", "none")
                    /\ UNCHANGED <<display, alert, perm>>
               ELSE /\ StartCatch(t)
                    /\ ev' = Ev("s_stop_done", "local")
    /\ UNCHANGED cycleDone
    /\ UNCHANGED posts

\* startRecording, line 29: setAudioModeAsync of stopRecording (75) settles;
\* on success stopRecording finishes (79-83) and startRecording goes on to
\* its own setAudioModeAsync (47).
StartStopModeSettles(t) ==
    /\ tasks[t].pc = "s_stopmode"
    /\ \E ok \in BOOLEAN :
          /\ osFault' = (osFault \/ ~ok)
          /\ IF ok
               THEN /\ prediction' = "Processing..."
                    /\ confidence' = ""
                    /\ tasks' = [tasks EXCEPT ![t].pc = "s_mode"]
                    /\ ev' = Ev("s_stopmode_done", "none")
                    /\ UNCHANGED <<recording, isRecording, alert, perm>>
               ELSE /\ StartCatch(t)
                    /\ ev' = Ev("s_stopmode_done", "local")
    /\ UNCHANGED <<hstate, cycleDone>>
    /\ UNCHANGED posts

\* startRecording, line 47 settles; on success line 50 calls createAsync.
StartModeSettles(t) ==
    /\ tasks[t].pc = "s_mode"
    /\ \E ok \in BOOLEAN :
          /\ osFault' = (osFault \/ ~ok)
          /\ IF ok
               THEN /\ tasks' = [tasks EXCEPT ![t].pc = "s_create"]
                    /\ ev' = Ev("create_call", "none")
                    /\ UNCHANGED <<display, alert, perm>>
               ELSE /\ StartCatch(t)
                    /\ ev' = Ev("s_mode_done", "local")
    /\ UNCHANGED <<hstate, cycleDone>>
    /\ UNCHANGED posts

\* startRecording, lines 50-57: createAsync settles.  It rejects without the
\* microphone permission.  With another Recording still active it may reject
\* or resolve; otherwise a rejection is an OS failure.
CreateSettles(t) ==
    /\ tasks[t].pc = "s_create"
    /\ \E ok \in (IF perm = "granted" THEN BOOLEAN ELSE {FALSE}) :
          IF ok
            THEN LET h == CHOOSE x \in UnusedHandles :
                              \A y \in UnusedHandles : x <= y
                 IN /\ UnusedHandles # {}
                    /\ hstate' = [hstate EXCEPT ![h] = "active"]
                    /\ recording' = h
                    /\ isRecording' = TRUE
                    /\ prediction' = "Recording..."
                    /\ confidence' = ""
                    /\ tasks' = [tasks EXCEPT ![t] = FreeTask]
                    /\ ev' = Ev("create_done", "none")
                    /\ UNCHANGED <<alert, perm, osFault>>
            ELSE /\ StartCatch(t)
                 /\ ev' = Ev("create_done", "local")
                 /\ osFault' = (osFault \/ (perm = "granted" /\ ActiveHandles = {}))
                 /\ UNCHANGED hstate
    /\ UNCHANGED cycleDone
    /\ UNCHANGED posts

\* ------------------------------------- handleRecordButtonPress, stop (86-91)
\* handleRecordButtonPress with isRecording true: stopRecording() up to its
\* first await, setIsRecording(false) and the call stopAndUnloadAsync() on
\* the stored handle.  The handler has no catch: a rejection ends it with
\* nothing set.
PressStop(t) ==
    /\ isRecording
    /\ isRecording' = FALSE
    /\ IF StopRejectsAtCall(recording)
         THEN /\ ev' = Ev("press_stop", "local")
              /\ cycleDone' = TRUE
              /\ UNCHANGED tasks
         ELSE /\ tasks' = [tasks EXCEPT ![t] =
                     [pc |-> "h_stop", rec |-> recording, uri |-> NoRecording,
                      hang |-> FALSE]]
              /\ ev' = Ev("press_stop", "none")
              /\ UNCHANGED cycleDone
    /\ UNCHANGED <<recording, prediction, confidence, alert, perm, hstate, osFault>>
    /\ UNCHANGED posts

\* One press of the record button (the Button's onPress, 165-169).
Press ==
    \E t \in FreeSlots :
        /\ \A u \in FreeSlots : t <= u
        /\ IF isRecording THEN PressStop(t) ELSE PressStart(t)

\* stopRecording line 74 settles in the handler.
HandlerStopSettles(t) ==
    /\ tasks[t].pc = "h_stop"
    /\ \E ok \in BOOLEAN :
          /\ StopSettled(tasks[t].rec, ok)
          /\ IF ok
               THEN /\ tasks' = [tasks EXCEPT ![t].pc = "h_mode"]
                    /\ ev' = Ev("h_stop_done", "none")
                    /\ UNCHANGED cycleDone
               ELSE /\ tasks' = [tasks EXCEPT ![t] = FreeTask]
                    /\ ev' = Ev("h_stop_done", "local")
                    /\ cycleDone' = TRUE
    /\ UNCHANGED <<display, alert, perm>>
    /\ UNCHANGED posts

\* UriOf reading the handle stored in the component state at that moment.
UriOf_M(t) == recording

\* Line 79: recording.getURI() reads the handle of the invocation's closure.
UriOf(t) == tasks[t].rec

\* stopRecording line 75 settles in the handler.  On success stopRecording
\* finishes (79-83) and returns the URI; with a URI the handler calls
\* uploadAudio, which sets the status (99) and issues the POST (115).  The
\* server may never answer that request (hang).  The handler resumes in the
\* same turn stopRecording returns in, so "Processing..." (81) is overwritten
\* by "Sending to backend..." (99) before any other event can run.
HandlerModeSettles(t) ==
    /\ tasks[t].pc = "h_mode"
    /\ \E ok \in BOOLEAN, uri \in BOOLEAN, hang \in BOOLEAN :
          IF ok
            THEN /\ confidence' = ""
                 /\ IF uri
                      THEN /\ prediction' = "Sending to backend..."
                           /\ tasks' = [tasks EXCEPT ![t].pc = "post",
                                                     ![t].uri = UriOf(t),
                                                     ![t].hang = hang]
                           /\ posts' = [posts EXCEPT ![UriOf(t)] = @ + 1]
                           /\ ev' = Ev("post_call", "none")
                           /\ UNCHANGED <<osFault, cycleDone>>
                      ELSE /\ ~hang
                           /\ prediction' = "Processing..."
                           /\ tasks' = [tasks EXCEPT ![t] = FreeTask]
                           /\ ev' = Ev("h_mode_done", "none")
                           /\ osFault' = TRUE
                           /\ UNCHANGED posts
                           /\ cycleDone' = TRUE
            ELSE /\ uri /\ ~hang
                 /\ tasks' = [tasks EXCEPT ![t] = FreeTask]
                 /\ ev' = Ev("h_mode_done", "local")
                 /\ osFault' = TRUE
                 /\ cycleDone' = TRUE
                 /\ UNCHANGED <<prediction, confidence, posts>>
    /\ UNCHANGED <<recording, isRecording, alert, perm, hstate>>

\* ------------------------------------------------------ uploadAudio (97-153)
\* Number.prototype.toFixed(2) of c*100, for c given in ten-thousandths: the
\* decimal digits of the integer part, a point, two digits of fraction.
Digit(d) ==
    CASE d = 0 -> "0" [] d = 1 -> "1" [] d = 2 -> "2" [] d = 3 -> "3"
      [] d = 4 -> "4" [] d = 5 -> "5" [] d = 6 -> "6" [] d = 7 -> "7"
      [] d = 8 -> "8" [] d = 9 -> "9"

RECURSIVE NatStr(_)
NatStr(k) == IF k < 10 THEN Digit(k) ELSE NatStr(k \div 10) \o Digit(k % 10)

ToFixed2(n) ==
    NatStr(n \div 100) \o "." \o Digit((n % 100) \div 10) \o Digit(n % 10)

\* FormatConfidence with a placeholder text for a missing confidence.
FormatConfidence_M(conf) ==
    IF conf # NoConf /\ conf # 0 THEN ToFixed2(conf) \o "%" ELSE "unknown"

\* Line 124: response.data.confidence ? `${...toFixed(2)}%` : "".  A missing
\* field and the number 0 are both falsy.
FormatConfidence(conf) ==
    IF conf # NoConf /\ conf # 0 THEN ToFixed2(conf) \o "%" ELSE ""

\* What the awaited axios.post can settle with.
Responses ==
    [kind : {"2xx"}, label : Labels \cup {NoLabel}, conf : ConfValues \cup {NoConf}]
    \cup [kind : {"status", "no_response", "setup"}, label : {NoLabel}, conf : {NoConf}]

\* Line 122: response.data && response.data.prediction.
HasPrediction(r) == r.kind = "2xx" /\ r.label # NoLabel

\* AfterPost sending the request again when no response was received.
AfterPost_M(t, r) == IF r.kind = "no_response" THEN tasks[t] ELSE FreeTask

\* Lines 120-153: after the response handling, in the try or in the catch,
\* uploadAudio returns: the invocation ends whatever the response was.
AfterPost(t, r) == FreeTask

\* Lines 121-152: the response handling of uploadAudio.
PostSettles(t) ==
    /\ tasks[t].pc = "post"
    /\ ~tasks[t].hang
    /\ \E r \in Responses :
          /\ tasks' = [tasks EXCEPT ![t] = AfterPost(t, r)]
          /\ CASE HasPrediction(r) ->
                     /\ prediction' = r.label
                     /\ confidence' = FormatConfidence(r.conf)
                     /\ alert' = "Prediction Received"
                     /\ ev' = [op |-> "post_done", fail |-> "none",
                               label |-> r.label, conf |-> r.conf]
               [] r.kind = "2xx" /\ ~HasPrediction(r) ->
                     /\ prediction' = "Prediction not found in response."
                     /\ confidence' = ""
                     /\ alert' = "Error"
                     /\ ev' = [op |-> "post_done", fail |-> "server",
                               label |-> r.label, conf |-> r.conf]
               [] r.kind = "status" ->
                     /\ prediction' = "Error sending to backend."
                     /\ confidence' = ""
                     /\ alert' = "Backend Error"
                     /\ ev' = Ev("post_done", "server")
               [] r.kind = "no_response" ->
                     /\ prediction' = "Error sending to backend."
                     /\ confidence' = ""
                     /\ alert' = "Network Error"
                     /\ ev' = Ev("post_done", "network")
               [] r.kind = "setup" ->
                     /\ prediction' = "Error sending to backend."
                     /\ confidence' = ""
                     /\ alert' = "Error"
                     /\ ev' = Ev("post_done", "setup")
    /\ cycleDone' = TRUE
    /\ UNCHANGED <<recording, isRecording, perm, hstate, osFault>>
    /\ UNCHANGED posts

\* ------------------------------------------------------------ specification
TaskStep(t) ==
    \/ StartStopSettles(t)
    \/ StartStopModeSettles(t)
    \/ StartModeSettles(t)
    \/ CreateSettles(t)
    \/ HandlerStopSettles(t)
    \/ HandlerModeSettles(t)
    \/ PostSettles(t)

Next ==
    \/ PermissionResult
    \/ Press
    \/ \E t \in Slots : TaskStep(t)

Spec == Init /\ [][Next]_vars

\* Every promise that settles resumes its invocation; a request the server
\* never answers does not settle (axios.post is called without a timeout).
FairSpec == Spec /\ \A t \in Slots : WF_vars(TaskStep(t))

\* ------------------------------------------------------------------ claims
PressOps == {"press_start", "press_stop"}

\* A stopRecording awaiting the OS, or an uploadAudio awaiting the response.
StopOrUploadInFlight == InFlight(StopPcs \cup {"post"}) # {}

\* C1: a press of the record button while a stop or an upload is in flight
\* is ignored: it changes no client state and suspends no new invocation
\* (no OS operation, no HTTP request).
C1_PressIgnoredWhileBusy ==
    [][(ev'.op \in PressOps /\ StopOrUploadInFlight)
          => (UNCHANGED display /\ tasks' = tasks)]_vars

\* C2: at most one upload (POST) is in flight at any time.
C2_AtMostOneUpload == Cardinality(InFlight({"post"})) <= 1

\* C3: at most one Recording is active, and createAsync is never called
\* while a Recording created before is still active.
C3_OneActiveSession ==
    /\ Cardinality(ActiveHandles) <= 1
    /\ (ev.op = "create_call" => ActiveHandles = {})

\* C4: with the microphone permission denied the machine stays in Idle: the
\* flag isRecording is false, no handle is stored, no Recording is active
\* and no upload is issued or in flight.
C4_DeniedStaysIdle ==
    perm = "denied" =>
        /\ ~isRecording
        /\ recording = NoRecording
        /\ ActiveHandles = {}
        /\ InFlight({"post"}) = {}
        /\ ev.op \notin {"post_call", "post_done"}

\* C4 witness: permission is denied and a start attempt has just been
\* refused by createAsync.
C4_Witness ==
    perm = "denied" /\ ev.op = "create_done" /\ ev.fail = "local"

\* A call of startRecording has just ended (in its last line or its catch).
StartEnded ==
    \/ ev.op = "create_done"
    \/ ev.fail = "local" /\
       ev.op \in {"press_start", "s_stop_done", "s_stopmode_done", "s_mode_done"}

\* C5: after a completed cycle, with permission granted and no OS failure,
\* a press that starts a recording ends with a new active recording.
C5_ReadyAfterCycle ==
    (cycleDone /\ ~osFault /\ perm = "granted" /\ StartEnded)
        => (isRecording /\ recording \in ActiveHandles)

\* C6: every local failure (a start or a stop of the recording failed) shows
\* the error status and leaves the machine in Idle.
C6_LocalFailureSurfaced ==
    ev.fail = "local" => (prediction = "Error" /\ ~isRecording)

\* The failure category a user reads from the status and the last Alert.
CategoryShown ==
    CASE alert = "Network Error" -> "network"
      [] alert = "Backend Error" -> "server"
      [] alert = "Error" /\ prediction = "Prediction not found in response." -> "server"
      [] alert = "Recording Error" -> "local"
      [] OTHER -> "none"

\* C7: every network, server or local failure shows an output that carries
\* its category.
C7_FailureCarriesCategory ==
    ev.fail \in {"network", "server", "local"} => CategoryShown = ev.fail

\* C8: an upload the server never answers leads to the network failure and
\* does not stay in flight forever.
C8_TimeoutReachesFailed ==
    \A t \in Slots :
        (tasks[t].pc = "post" /\ tasks[t].hang)
            ~> (tasks[t].pc # "post" /\ ev.fail = "network")

\* c*100 with exactly two decimals and a percent sign, c in ten-thousandths.
PercentText(n) ==
    NatStr(n \div 100) \o "." \o NatStr((n % 100) \div 10) \o NatStr(n % 10) \o "%"

\* C9: a 2xx response with a label and a confidence c in [0,1] displays the
\* label as the status and c*100 with two decimals and "%" as the confidence.
C9_ConfidenceDisplayed ==
    (ev.op = "post_done" /\ ev.label \in Labels /\ ev.conf \in 0..10000)
        => (prediction = ev.label /\ confidence = PercentText(ev.conf))

\* C10: a 2xx response with a label and no confidence field is a success:
\* the label is the status, no confidence text, no error.
C10_LabelWithoutConfidence ==
    (ev.op = "post_done" /\ ev.label \in Labels /\ ev.conf = NoConf)
        => /\ ev.fail = "none"
           /\ prediction = ev.label
           /\ confidence = ""
           /\ alert = "Prediction Received"

\* C10 witness: such a response has just been handled.
C10_Witness ==
    ev.op = "post_done" /\ ev.label \in Labels /\ ev.conf = NoConf

\* C11: a POST is in flight only for a session whose stopAndUnloadAsync was
\* awaited by the same invocation and has unloaded the Recording, and it
\* carries the URI of that session.
C11_StopBeforeUpload ==
    \A t \in Slots :
        tasks[t].pc = "post" =>
            /\ tasks[t].rec \in Handles
            /\ tasks[t].uri = tasks[t].rec
            /\ hstate[tasks[t].rec] = "unloaded"

\* C11 witness: a POST has just been issued.
C11_Witness ==
    ev.op = "post_call" /\ InFlight({"post"}) # {}

\* The stored handle is still in use: an invocation is working on it.
InUse(h) == \E t \in Slots : tasks[t].pc # "free" /\ tasks[t].rec = h

\* C12: once the cycle of a session has ended (its Recording is unloaded and
\* no invocation works on it any more: uploaded, or discarded on error) the
\* client no longer holds its handle.
C12_SessionDestroyed ==
    \A h \in Handles : (hstate[h] = "unloaded" /\ ~InUse(h)) => recording # h

\* C13: no automatic retry.  The file of one session is posted at most once,
\* and the step that handles the outcome of a POST ends its invocation and
\* issues no request.
C13_NoRetry ==
    /\ [](\A h \in Handles : posts[h] <= 1)
    /\ [][ev'.op = "post_done" =>
            /\ posts' = posts
            /\ \E t \in Slots :
                  /\ tasks[t].pc = "post"
                  /\ tasks'[t].pc = "free"
                  /\ \A u \in Slots \ {t} : tasks'[u] = tasks[u]]_vars

\* C13 witness: an upload has just failed and its session was posted once.
C13_Witness ==
    /\ ev.op = "post_done"
    /\ ev.fail \in {"network", "server"}
    /\ \E h \in Handles : posts[h] = 1

\* C14: whenever the confidence text is not empty, the status is a label.
C14_ConfidenceWithLabel ==
    confidence # "" => prediction \in Labels

TransientStatus == {"Recording...", "Processing...", "Sending to backend..."}

\* C15: when every invocation has ended and nothing is being recorded, the
\* status is not a transient one.
C15_TerminalStatus ==
    (InFlight({"free"}) = Slots /\ ~isRecording) => prediction \notin TransientStatus

\* C16: with no start and no stop in flight, a Recording is active at the OS
\* exactly if isRecording is true.
C16_FlagAgreesWithRecorder ==
    InFlight(StartPcs \cup StopPcs) = {} => (isRecording <=> ActiveHandles # {})

====
